---- MODULE Spec2Model ----
(***************************************************************************)
(* Stock reservation and expiry subsystem of the sneaker-drop server.      *)
(*                                                                         *)
(* The database (MySQL/InnoDB through Sequelize) is modelled by its        *)
(* committed rows (drops, reservations, purchases) and by the exclusive    *)
(* row locks each open transaction holds.  A request handler is a          *)
(* transaction that advances one awaited statement at a time: a locking    *)
(* read (SELECT ... FOR UPDATE) waits while another transaction holds the  *)
(* row and then sees the latest committed version of it; the rows a        *)
(* transaction has written stay invisible to the others until it commits,  *)
(* and are discarded by a rollback.  A statement that waits is a statement *)
(* that has not been executed yet: opening the transaction, which reads    *)
(* and locks nothing, is one step with the handler's first statement.      *)
(*                                                                         *)
(* Time is counted in units of one reservation duration                    *)
(* (RESERVATION_DURATION, 60000 ms by default).                            *)
(***************************************************************************)
EXTENDS Integers, Sequences, FiniteSets, Bags, TLC

\* ---------------------------------------------------------------- bounds
MaxTime == 2          \* the clock stops advancing here
MaxHolds == 2         \* at most this many reservation rows are ever created
MaxTx == 2            \* transactions (requests, sweeper ticks) open at once

\* ------------------------------------------------------- program constants
ReservationDuration == 1   \* parseInt(RESERVATION_DURATION) || 60000, one unit

Users == {1, 2}            \* ids of authenticated users (req.user.id)
AllocUsers == {1, 2, 3}    \* the holders of the allocation scenario
DropIds == {1}             \* primary keys of drops a request may name
Prices == {10, 20}         \* catalog prices
Stocks == {1, 2}           \* initial_stock of the drop on sale
NoTime == -1               \* drop_start_time IS NULL
HoldIds == 1 .. MaxHolds   \* primary keys of reservations a request may name
AnyDropIds == {1, 2}       \* req.body.dropId, of a drop or of none

VARIABLES
    drops,          \* committed rows of table drops: id -> row
    reservations,   \* committed rows of table reservations: id -> row
    purchases,      \* committed rows of table purchases: id -> row
    txs,            \* the open transactions, a bag of handler states
    pool,           \* how many transactions can be open at once
    now,            \* wall clock (new Date(), Date.now())
    answers         \* the most recent responses, oldest first; its length,
                    \* fixed by the initial state, is how many are kept

vars == <<drops, reservations, purchases, txs, pool, now, answers>>

EmptyFn == [x \in {} |-> 0]

\* The open transactions.
Tx == BagToSet(txs)

\* A transaction that has just been opened, before its first statement.
NewTx ==
    [op |-> "none", pc |-> "begin", user |-> 0, drop |-> 0, res |-> 0,
     lockR |-> {}, lockD |-> {}, wStock |-> EmptyFn, expires |-> NoTime,
     price |-> 0, todo |-> <<>>, count |-> EmptyFn, date |-> NoTime,
     emitted |-> {}, row |-> EmptyFn, body |-> EmptyFn]

NoResponse == [op |-> "none", user |-> 0, drop |-> 0, res |-> 0, result |-> "none"]

\* The response sent last, where responses are recorded.
last == IF answers = <<>> THEN NoResponse ELSE answers[Len(answers)]

\* ------------------------------------------------------------ model methods

\* Mutant: every drop counts as started.
hasStartedAlways(d) == TRUE

\* Drop.prototype.hasStarted
hasStarted(d) ==
    IF d.drop_start_time = NoTime THEN TRUE ELSE now >= d.drop_start_time

\* Mutant: the wall clock is not compared with expires_at.
isExpiredByStatus(r) == r.status = "expired"

\* Reservation.prototype.isExpired
isExpired(r) == now > r.expires_at \/ r.status = "expired"

\* Reservation.expires_at validate.isFuture, on a new record.
isFuture(value) == ~(value <= now)

\* Drop hook beforeUpdate: throws when stock exceeds initial_stock.
beforeUpdateThrows(stock, initial_stock) == stock > initial_stock

\* Drop.stock validate.min: 'Stock cannot be negative'.
stockValid(stock) == stock >= 0

\* Mutant: the model has no beforeUpdate hook.
DropSaveNoHook(d, stock) == stockValid(stock)

\* drop.save({ transaction }) with a changed stock: validation, then the hook.
DropSaveOk(d, stock) ==
    stockValid(stock) /\ ~beforeUpdateThrows(stock, d.initial_stock)

\* ------------------------------------------------------------ transactions

\* sequelize.transaction(): a connection of the pool is free.  An updateDrop
\* between its two statements (op "update") holds no connection.
CanOpen ==
    BagCardinality([y \in {t \in Tx : t.op # "update"} |-> CopiesIn(y, txs)]) < pool

\* Transaction x is open and has run its first statement; nothing is
\* committed.
Opened(x) ==
    /\ txs' = txs (+) SetToBag({x})
    /\ UNCHANGED <<drops, reservations, purchases, pool, now, answers>>

\* Transaction x moves on to the state y; nothing is committed.
Goto(x, y) ==
    /\ txs' = (txs (-) SetToBag({x})) (+) SetToBag({y})
    /\ UNCHANGED <<drops, reservations, purchases, pool, now, answers>>

\* Transaction x is over: its locks are released, its connection returned.
Close(x) == txs' = txs (-) SetToBag({x})

\* A row lock is exclusive: the row is locked when any open transaction
\* holds it (a transaction never asks for a row it already holds).
\* Mutant: the reservation row is read without lock UPDATE.
ResNeverLocked(r) == FALSE

ResLocked(r) == \E y \in Tx : r \in y.lockR

\* Mutant: the drop row is read without lock UPDATE.
DropNeverLocked(d) == FALSE

DropLocked(d) == \E y \in Tx : d \in y.lockD

\* The answer a handler sends, recorded when its transaction ends.
RespondWith(x, res, result) ==
    IF answers = <<>> THEN <<>>
    ELSE Tail(answers) \o
            <<[op |-> x.op, user |-> x.user, drop |-> x.drop,
               res |-> res, result |-> result]>>

Respond(x, result) == RespondWith(x, x.res, result)

\* Mutant: the failure path ends the transaction with its writes applied.
RollbackCommits(x, result) ==
    /\ Close(x)
    /\ answers' = Respond(x, result)
    /\ drops' = [d \in DOMAIN drops |->
                    IF d \in DOMAIN x.wStock
                    THEN [drops[d] EXCEPT !.stock = x.wStock[d]]
                    ELSE drops[d]]
    /\ UNCHANGED <<reservations, purchases, pool, now>>

\* transaction.rollback(): locks released, nothing written.
Rollback(x, result) ==
    /\ Close(x)
    /\ answers' = Respond(x, result)
    /\ UNCHANGED <<drops, reservations, purchases, pool, now>>

\* transaction.rollback() after the first statement of handler x: the
\* transaction held no lock and is over within the step.
Refused(x, result) ==
    /\ answers' = Respond(x, result)
    /\ UNCHANGED <<drops, reservations, purchases, txs, pool, now>>

\* The rows a transaction wrote, as they stand once it commits.
CommitStock(x) ==
    [d \in DOMAIN drops |->
        IF d \in DOMAIN x.wStock
        THEN [drops[d] EXCEPT !.stock = x.wStock[d]]
        ELSE drops[d]]

\* Mutant: the status a transaction wrote is lost at its commit.
CommitStatusLost(x, status) == reservations

CommitStatus(x, status) ==
    [r \in DOMAIN reservations |->
        IF r \in x.lockR
        THEN [reservations[r] EXCEPT !.status = status]
        ELSE reservations[r]]

\* ------------------------------------------------------------ reserveItem

\* Mutant: reserveItem does not look for a reservation of the user.
existingReservationNone(u, d) == FALSE

\* The where clause of Reservation.findOne in reserveItem.
existingReservation(u, d) ==
    \E r \in DOMAIN reservations :
        /\ reservations[r].user_id = u
        /\ reservations[r].drop_id = d
        /\ reservations[r].status = "active"
        /\ reservations[r].expires_at > now

\* sequelize.transaction({ isolationLevel: READ_COMMITTED }), then
\* Reservation.findOne (a plain read of committed rows) and the early return.
ReserveFindExisting(u, d) ==
    /\ CanOpen
    /\ LET x == [NewTx EXCEPT !.op = "reserve", !.pc = "lockDrop",
                              !.user = u, !.drop = d]
       IN  IF existingReservation(u, d)
           THEN Refused(x, "already_reserved")
           ELSE Opened(x)

\* Mutant: the stock check lets a reserve through at stock 0.
outOfStockBelowZero(d) == d.stock < 0

\* The stock check of reserveItem: drop.stock <= 0.
outOfStock(d) == d.stock <= 0

\* The reservation rows that exist or are about to be inserted.
HoldRows ==
    Cardinality(DOMAIN reservations)
        + Cardinality({y \in Tx : y.op = "reserve" /\ y.pc = "commit"})

\* Mutant: once it holds the drop row, reserveItem locks the reservation rows
\* of the drop (Item before Hold, against the order of cancel and complete).
ReserveLockDropThenHolds(x) ==
    /\ x.pc = "lockDrop"
    /\ x.op = "reserve"
    /\ x.drop \in DOMAIN drops
    /\ IF x.lockD = {}
       THEN /\ ~DropLocked(x.drop)
            /\ Goto(x, [x EXCEPT !.lockD = {x.drop}])
       ELSE /\ \A r \in DOMAIN reservations :
                  reservations[r].drop_id = x.drop => ~ResLocked(r)
            /\ Goto(x, [x EXCEPT !.pc = "commit",
                                 !.wStock = (x.drop :> drops[x.drop].stock),
                                 !.expires = now + ReservationDuration])

\* Mutant: the stock check comes before the hasStarted check.
ReserveLockDropStockFirst(x) ==
    /\ x.pc = "lockDrop"
    /\ x.op = "reserve"
    /\ LET d == x.drop IN
       IF d \notin DOMAIN drops THEN Rollback(x, "drop_not_found")
       ELSE /\ ~DropLocked(d)
            /\ IF outOfStock(drops[d]) THEN Rollback(x, "out_of_stock")
               ELSE IF ~hasStarted(drops[d]) THEN Rollback(x, "not_started")
               ELSE /\ HoldRows < MaxHolds
                    /\ Goto(x, [x EXCEPT !.pc = "commit",
                                         !.lockD = {d},
                                         !.wStock = (d :> (drops[d].stock - 1)),
                                         !.expires = now + ReservationDuration])

\* Drop.findOne with lock UPDATE, the three checks, drop.stock -= 1 with
\* drop.save, expiresAt, and the validation of Reservation.create.
ReserveLockDrop(x) ==
    /\ x.pc = "lockDrop"
    /\ x.op = "reserve"
    /\ LET d == x.drop IN
       IF d \notin DOMAIN drops THEN Rollback(x, "drop_not_found")
       ELSE /\ ~DropLocked(d)
            /\ IF ~hasStarted(drops[d]) THEN Rollback(x, "not_started")
               ELSE IF outOfStock(drops[d]) THEN Rollback(x, "out_of_stock")
               ELSE IF \/ ~DropSaveOk(drops[d], drops[d].stock - 1)
                       \/ ~isFuture(now + ReservationDuration)
               THEN Rollback(x, "error")
               ELSE /\ HoldRows < MaxHolds
                    /\ Goto(x, [x EXCEPT !.pc = "commit",
                                         !.lockD = {d},
                                         !.wStock = (d :> (drops[d].stock - 1)),
                                         !.expires = now + ReservationDuration])

\* Mutant: the commit inserts the reservation and leaves the stock as it was.
ReserveCommitHoldOnly(x) ==
    /\ x.pc = "commit"
    /\ x.op = "reserve"
    /\ LET id == Cardinality(DOMAIN reservations) + 1 IN
       /\ reservations' = reservations @@
              (id :> [user_id |-> x.user, drop_id |-> x.drop,
                      status |-> "active", expires_at |-> x.expires])
       /\ Close(x)
       /\ answers' = RespondWith(x, id, "ok")
       /\ UNCHANGED <<drops, purchases, pool, now>>

\* The INSERT of Reservation.create and transaction.commit.
ReserveCommit(x) ==
    /\ x.pc = "commit"
    /\ x.op = "reserve"
    /\ LET id == Cardinality(DOMAIN reservations) + 1 IN
       /\ drops' = CommitStock(x)
       /\ reservations' = reservations @@
              (id :> [user_id |-> x.user, drop_id |-> x.drop,
                      status |-> "active", expires_at |-> x.expires])
       /\ Close(x)
       /\ answers' = RespondWith(x, id, "ok")
       /\ UNCHANGED <<purchases, pool, now>>

\* An awaited statement of reserveItem throws (a lock wait timeout in
\* Drop.findOne, a failure of drop.save, of Reservation.create or of the
\* commit): the catch block rolls back and hands the error to next().
ReserveError(x) ==
    /\ x.op = "reserve"
    /\ Rollback(x, "error")

\* ------------------------------------------------------------ cancelReservation

\* Mutant: the where clause without status: 'active'.
cancelWhereAnyStatus(u, r) ==
    /\ r \in DOMAIN reservations
    /\ reservations[r].user_id = u

\* Mutant: the where clause also asks for a deadline that has not passed.
cancelWhereNotOverdue(u, r) ==
    /\ r \in DOMAIN reservations
    /\ reservations[r].user_id = u
    /\ reservations[r].status = "active"
    /\ reservations[r].expires_at >= now

\* The where clause of Reservation.findOne in cancelReservation:
\* { id, user_id: userId, status: 'active' }.
cancelWhere(u, r) ==
    /\ r \in DOMAIN reservations
    /\ reservations[r].user_id = u
    /\ reservations[r].status = "active"

\* sequelize.transaction(), then Reservation.findOne with lock UPDATE, the
\* 404 return, and reservation.status = 'expired' with reservation.save.
CancelLockRes(u, r) ==
    /\ CanOpen
    /\ ~ResLocked(r)
    /\ LET x == [NewTx EXCEPT !.op = "cancel", !.pc = "lockDrop",
                              !.user = u, !.res = r]
       IN  IF ~cancelWhere(u, r)
           THEN Refused(x, "active_reservation_not_found")
           ELSE Opened([x EXCEPT !.lockR = {r},
                                 !.drop = reservations[r].drop_id])

\* Mutant: the cancel does not return the unit.
CancelLockDropNoCredit(x) ==
    /\ x.pc = "lockDrop"
    /\ x.op = "cancel"
    /\ ~DropLocked(x.drop)
    /\ Goto(x, [x EXCEPT !.pc = "commit", !.lockD = {x.drop}])

\* Mutant: a credit above initial_stock is dropped, and the cancel goes on.
CancelLockDropClamps(x) ==
    /\ x.pc = "lockDrop"
    /\ x.op = "cancel"
    /\ LET d == x.drop IN
       IF d \notin DOMAIN drops
       THEN Goto(x, [x EXCEPT !.pc = "commit"])
       ELSE /\ ~DropLocked(d)
            /\ Goto(x, [x EXCEPT !.pc = "commit",
                                 !.lockD = {d},
                                 !.wStock =
                                    (d :> IF DropSaveOk(drops[d], drops[d].stock + 1)
                                          THEN drops[d].stock + 1
                                          ELSE drops[d].stock)])

\* Drop.findOne with lock UPDATE, drop.stock += 1 and drop.save.
CancelLockDrop(x) ==
    /\ x.pc = "lockDrop"
    /\ x.op = "cancel"
    /\ LET d == x.drop IN
       IF d \notin DOMAIN drops
       THEN Goto(x, [x EXCEPT !.pc = "commit"])
       ELSE /\ ~DropLocked(d)
            /\ IF ~DropSaveOk(drops[d], drops[d].stock + 1)
               THEN Rollback(x, "error")
               ELSE Goto(x, [x EXCEPT !.pc = "commit",
                                      !.lockD = {d},
                                      !.wStock = (d :> (drops[d].stock + 1))])

\* transaction.commit() of cancelReservation
CancelCommit(x) ==
    /\ x.pc = "commit"
    /\ x.op = "cancel"
    /\ drops' = CommitStock(x)
    /\ reservations' = CommitStatus(x, "expired")
    /\ Close(x)
    /\ answers' = Respond(x, "ok")
    /\ UNCHANGED <<purchases, pool, now>>

\* ------------------------------------------------------------ completePurchase

\* Mutant: the where clause without status: 'active'.
completeWhereAnyStatus(u, r) ==
    /\ r \in DOMAIN reservations
    /\ reservations[r].user_id = u

\* Mutant: the where clause without user_id.
completeWhereAnyUser(u, r) ==
    /\ r \in DOMAIN reservations
    /\ reservations[r].status = "active"

\* The where clause of Reservation.findOne in completePurchase:
\* { id: reservationId, user_id: userId, status: 'active' }.
completeWhere(u, r) ==
    /\ r \in DOMAIN reservations
    /\ reservations[r].user_id = u
    /\ reservations[r].status = "active"

\* sequelize.transaction(), then Reservation.findOne with include Drop and
\* lock UPDATE: the reservation row is read and locked first; the 404 return.
CompleteLockRes(u, r) ==
    /\ CanOpen
    /\ ~ResLocked(r)
    /\ LET x == [NewTx EXCEPT !.op = "complete", !.pc = "lockDrop",
                              !.user = u, !.res = r]
       IN  IF ~completeWhere(u, r)
           THEN Refused(x, "active_reservation_not_found")
           ELSE Opened([x EXCEPT !.lockR = {r},
                                 !.drop = reservations[r].drop_id])

\* Mutant: the drop is read without being locked.
CompleteLockDropUnlocked(x) ==
    /\ x.pc = "lockDrop"
    /\ x.op = "complete"
    /\ IF isExpired(reservations[x.res])
       THEN Rollback(x, "reservation_expired")
       ELSE Goto(x, [x EXCEPT !.pc = "commit", !.price = drops[x.drop].price])

\* The joined drop row of the same locking read, then the isExpired check,
\* reservation.status = 'completed' with reservation.save, and the values of
\* Purchase.create.
CompleteLockDrop(x) ==
    /\ x.pc = "lockDrop"
    /\ x.op = "complete"
    /\ ~DropLocked(x.drop)
    /\ IF isExpired(reservations[x.res])
       THEN Rollback(x, "reservation_expired")
       ELSE Goto(x, [x EXCEPT !.pc = "commit",
                              !.lockD = {x.drop},
                              !.price = drops[x.drop].price])

\* Mutant: the purchase takes a unit off the stock again.
CompleteCommitDebits(x) ==
    /\ x.pc = "commit"
    /\ x.op = "complete"
    /\ LET id == Cardinality(DOMAIN purchases) + 1 IN
       /\ reservations' = CommitStatus(x, "completed")
       /\ purchases' = purchases @@
              (id :> [user_id |-> x.user, drop_id |-> x.drop, price |-> x.price])
       /\ drops' = [drops EXCEPT ![x.drop].stock = @ - 1]
       /\ Close(x)
       /\ answers' = Respond(x, "ok")
       /\ UNCHANGED <<pool, now>>

\* The INSERT of Purchase.create and transaction.commit.
CompleteCommit(x) ==
    /\ x.pc = "commit"
    /\ x.op = "complete"
    /\ LET id == Cardinality(DOMAIN purchases) + 1 IN
       /\ reservations' = CommitStatus(x, "completed")
       /\ purchases' = purchases @@
              (id :> [user_id |-> x.user, drop_id |-> x.drop, price |-> x.price])
       /\ Close(x)
       /\ answers' = Respond(x, "ok")
       /\ UNCHANGED <<drops, pool, now>>

\* ------------------------------------------------------------ processExpiredReservations

\* Mutant: the where clause without status: 'active'.
expiredReservationsAnyStatus ==
    {r \in DOMAIN reservations : reservations[r].expires_at < now}

\* The where clause of Reservation.findAll in processExpiredReservations.
expiredReservations ==
    {r \in DOMAIN reservations :
        reservations[r].status = "active" /\ reservations[r].expires_at < now}

RECURSIVE SetToSeq(_)
\* Object.entries(dropStockUpdates): integer keys in ascending order.
SetToSeq(S) ==
    IF S = {} THEN <<>>
    ELSE LET m == CHOOSE x \in S : \A y \in S : x <= y
         IN  <<m>> \o SetToSeq(S \ {m})

\* Mutant: the reservations are counted without grouping by drop.
dropStockUpdatesUngrouped(rs) ==
    [d \in {reservations[r].drop_id : r \in rs} |-> Cardinality(rs)]

\* dropStockUpdates after the loop over expiredReservations.
dropStockUpdates(rs) ==
    [d \in {reservations[r].drop_id : r \in rs} |->
        Cardinality({r \in rs : reservations[r].drop_id = d})]

\* sequelize.transaction({ isolationLevel: READ_COMMITTED }), started by
\* cron.schedule at every interval whether or not the previous tick is over,
\* then Reservation.findAll with lock UPDATE, the empty-result commit, and
\* the loop that marks every selected reservation expired and counts per
\* drop.
SweepSelect ==
    /\ CanOpen
    /\ LET rs == expiredReservations
           x == [NewTx EXCEPT !.op = "sweep", !.pc = "lockDrop"]
       IN  /\ \A r \in rs : ~ResLocked(r)
           /\ IF rs = {}
              THEN UNCHANGED vars
              ELSE Opened([x EXCEPT !.lockR = rs,
                                    !.count = dropStockUpdates(rs),
                                    !.todo = SetToSeq(DOMAIN dropStockUpdates(rs))])

\* Mutant: a credit that drop.save refuses is skipped and the tick goes on.
SweepLockDropSkips(x) ==
    /\ x.pc = "lockDrop"
    /\ x.op = "sweep"
    /\ LET d == Head(x.todo)
           rest == Tail(x.todo)
           nextpc == IF rest = <<>> THEN "commit" ELSE "lockDrop"
       IN  /\ ~DropLocked(d)
           /\ IF ~DropSaveOk(drops[d], drops[d].stock + x.count[d])
              THEN Goto(x, [x EXCEPT !.pc = nextpc, !.todo = rest,
                                     !.lockD = @ \cup {d}])
              ELSE Goto(x, [x EXCEPT
                          !.pc = nextpc,
                          !.todo = rest,
                          !.lockD = @ \cup {d},
                          !.wStock = @ @@ (d :> (drops[d].stock + x.count[d])),
                          !.emitted = @ \cup {d}])

\* One iteration of the loop over Object.entries(dropStockUpdates):
\* Drop.findByPk with lock UPDATE, drop.stock += stockToReturn, drop.save,
\* and io.emit of stockUpdate and reservationExpired for the drop.
SweepLockDrop(x) ==
    /\ x.pc = "lockDrop"
    /\ x.op = "sweep"
    /\ LET d == Head(x.todo)
           rest == Tail(x.todo)
           nextpc == IF rest = <<>> THEN "commit" ELSE "lockDrop"
       IN  IF d \notin DOMAIN drops
           THEN Goto(x, [x EXCEPT !.pc = nextpc, !.todo = rest])
           ELSE /\ ~DropLocked(d)
                /\ IF ~DropSaveOk(drops[d], drops[d].stock + x.count[d])
                   THEN Rollback(x, "error")
                   ELSE Goto(x, [x EXCEPT
                               !.pc = nextpc,
                               !.todo = rest,
                               !.lockD = @ \cup {d},
                               !.wStock = @ @@ (d :> (drops[d].stock + x.count[d])),
                               !.emitted = @ \cup {d}])

\* transaction.commit() of processExpiredReservations
SweepCommit(x) ==
    /\ x.pc = "commit"
    /\ x.op = "sweep"
    /\ drops' = CommitStock(x)
    /\ reservations' = CommitStatus(x, "expired")
    /\ Close(x)
    /\ UNCHANGED <<purchases, pool, now, answers>>

\* ------------------------------------------------------------ updateDrop

\* Mutant: the price edit is carried over to the purchases of the drop.
UpdateDropPriceReprices(d, p) ==
    /\ d \in DOMAIN drops
    /\ ~DropLocked(d)
    /\ drops[d].price # p
    /\ drops' = [drops EXCEPT ![d].price = p]
    /\ purchases' = [q \in DOMAIN purchases |->
                        IF purchases[q].drop_id = d
                        THEN [purchases[q] EXCEPT !.price = p]
                        ELSE purchases[q]]
    /\ UNCHANGED <<reservations, txs, pool, now, answers>>

\* updateDrop with a request body that carries only price: Drop.findByPk,
\* drop.price = updates.price, drop.save (an UPDATE of the changed column,
\* which waits for the row lock).
UpdateDropPrice(d, p) ==
    /\ d \in DOMAIN drops
    /\ ~DropLocked(d)
    /\ drops[d].price # p
    /\ drops' = [drops EXCEPT ![d].price = p]
    /\ UNCHANGED <<reservations, purchases, txs, pool, now, answers>>

\* ------------------------------------------------------------ clock

Tick ==
    /\ now < MaxTime
    /\ now' = now + 1
    /\ UNCHANGED <<drops, reservations, purchases, txs, pool, answers>>

\* ------------------------------------------------------------ specification

\* One drop that has started, k of its n units in stock, nothing reserved.
InitDb(k, n) ==
    /\ drops = (1 :> [stock |-> k, initial_stock |-> n, price |-> 10,
                      drop_start_time |-> NoTime])
    /\ reservations = EmptyFn
    /\ purchases = EmptyFn
    /\ txs = EmptyBag
    /\ now = 0

\* Any interleaving of reserve, cancel, completePurchase and sweeper ticks.
Init ==
    /\ \E n \in Stocks : \E k \in 1 .. n : InitDb(k, n)
    /\ pool = MaxTx
    /\ answers = <<>>

Next ==
    \/ \E u \in Users, d \in DropIds : ReserveFindExisting(u, d)
    \/ \E x \in Tx : ReserveLockDrop(x)
    \/ \E x \in Tx : ReserveCommit(x)
    \/ \E u \in Users, r \in HoldIds : CancelLockRes(u, r)
    \/ \E x \in Tx : CancelLockDrop(x)
    \/ \E x \in Tx : CancelCommit(x)
    \/ \E u \in Users, r \in HoldIds : CompleteLockRes(u, r)
    \/ \E x \in Tx : CompleteLockDrop(x)
    \/ \E x \in Tx : CompleteCommit(x)
    \/ SweepSelect
    \/ \E x \in Tx : SweepLockDrop(x)
    \/ \E x \in Tx : SweepCommit(x)
    \/ Tick

Spec == Init /\ [][Next]_vars

\* The same operations from any stored state with 0 <= stock <= initial_stock:
\* the catalog (createDrop, updateDrop) can set stock to any such value, also
\* while a reservation is active.
InitCeiling ==
    /\ \E n \in Stocks : \E k \in 0 .. n :
          drops = (1 :> [stock |-> k, initial_stock |-> n, price |-> 10,
                         drop_start_time |-> NoTime])
    /\ \/ reservations = EmptyFn
       \/ reservations = (1 :> [user_id |-> 1, drop_id |-> 1, status |-> "active",
                                expires_at |-> ReservationDuration])
    /\ purchases = EmptyFn
    /\ txs = EmptyBag
    /\ now = 0
    /\ pool = MaxTx
    /\ answers = <<>>

SpecCeiling == InitCeiling /\ [][Next]_vars

\* ------------------------------------------------------------ properties

ActiveHolds(d) ==
    {r \in DOMAIN reservations :
        reservations[r].drop_id = d /\ reservations[r].status = "active"}

CompletedHolds(d) ==
    {r \in DOMAIN reservations :
        reservations[r].drop_id = d /\ reservations[r].status = "completed"}

ExpiredHolds(d) ==
    {r \in DOMAIN reservations :
        reservations[r].drop_id = d /\ reservations[r].status = "expired"}

Sales(d) == {p \in DOMAIN purchases : purchases[p].drop_id = d}

\* Transaction x takes the step.
Steps(x) == CopiesIn(x, txs') < CopiesIn(x, txs)

\* Transaction x takes the step and is over after it.
Ends(x) == Steps(x) /\ BagCardinality(txs') < BagCardinality(txs)

\* C1 (ceiling invariant): from any stored state with
\* 0 <= stock <= initial_stock, every state reached by reserve, cancel,
\* completePurchase and sweeper steps keeps 0 <= stock <= initial_stock for
\* every drop.
StockCeiling ==
    \A d \in DOMAIN drops :
        0 <= drops[d].stock /\ drops[d].stock <= drops[d].initial_stock

\* C1 witness: a unit was reserved and then credited back, and the stock is
\* at its ceiling again.
StockCeilingWitness ==
    \E d \in DOMAIN drops :
        /\ drops[d].stock = drops[d].initial_stock
        /\ ExpiredHolds(d) # {}

\* C2 (no overselling): for every drop, the sales plus the active holds never
\* exceed initial_stock.
NoOverselling ==
    \A d \in DOMAIN drops :
        Cardinality(Sales(d)) + Cardinality(ActiveHolds(d)) <= drops[d].initial_stock

\* C2 witness: every unit of a drop with two units is taken, one sold and one
\* on hold, while another reserve is waiting for the drop row.
NoOversellingWitness ==
    \E d \in DOMAIN drops :
        /\ drops[d].initial_stock = 2
        /\ Cardinality(Sales(d)) = 1
        /\ Cardinality(ActiveHolds(d)) = 1
        /\ \E x \in Tx : x.op = "reserve" /\ x.drop = d /\ x.pc = "lockDrop"

\* ------------------------------------------------------------ allocation

\* Every holder of AllocUsers sends one reserve for drop 1, all the calls may
\* be open at once, and every answer is kept.
Called(u) ==
    \/ \E x \in Tx : x.user = u
    \/ \E i \in 1 .. Len(answers) : answers[i].user = u

AllocReserve(u) == ~Called(u) /\ ReserveFindExisting(u, 1)

InitAlloc ==
    /\ \E k \in Stocks : InitDb(k, k)
    /\ pool = Cardinality(AllocUsers)
    /\ answers = [i \in 1 .. Cardinality(AllocUsers) |-> NoResponse]

NextAlloc ==
    \/ \E u \in AllocUsers : AllocReserve(u)
    \/ \E x \in Tx : ReserveLockDrop(x)
    \/ \E x \in Tx : ReserveCommit(x)
    \/ Tick

SpecAlloc == InitAlloc /\ [][NextAlloc]_vars

AllocAnswered == \A u \in AllocUsers : \E i \in 1 .. Len(answers) : answers[i].user = u

AllocCount(result) ==
    Cardinality({i \in 1 .. Len(answers) :
        answers[i].op = "reserve" /\ answers[i].result = result})

\* C3 (exactly-once allocation): when N holders each reserve a started drop
\* with stock K < N, once all are answered exactly K calls have succeeded,
\* exactly N - K have failed with 'Out of stock', and the stock is 0.
ExactlyOnceAllocation ==
    AllocAnswered =>
        /\ AllocCount("ok") = drops[1].initial_stock
        /\ AllocCount("out_of_stock") = Cardinality(AllocUsers) - drops[1].initial_stock
        /\ drops[1].stock = 0
        /\ Cardinality(ActiveHolds(1)) = drops[1].initial_stock

\* C3 witness: three calls on a stock of two are all answered, the last one
\* with 'Out of stock'.
ExactlyOnceAllocationWitness ==
    /\ AllocAnswered
    /\ drops[1].initial_stock = 2
    /\ last.result = "out_of_stock"

\* C4 (single active hold): for every user and drop, at most one reservation
\* is active with expires_at > now.
SingleActiveHold ==
    \A r1, r2 \in DOMAIN reservations :
        ( /\ reservations[r1].user_id = reservations[r2].user_id
          /\ reservations[r1].drop_id = reservations[r2].drop_id
          /\ reservations[r1].status = "active"
          /\ reservations[r2].status = "active"
          /\ reservations[r1].expires_at > now
          /\ reservations[r2].expires_at > now ) => r1 = r2

\* ------------------------------------------------------------ scenario A

\* The answers sent so far, and the k-th of them.
Answered == Cardinality({i \in 1 .. Len(answers) : answers[i].op # "none"})

Nth(k) == answers[Len(answers) - Answered + k]

\* Two holders reserve the last unit of drop 1 at the same time; when both
\* are answered the winner cancels its reservation; when that is answered
\* the loser reserves again.  The four answers are kept.
InitScenario ==
    /\ \E n \in Stocks : InitDb(1, n)
    /\ pool = MaxTx
    /\ answers = [i \in 1 .. 4 |-> NoResponse]

ScenarioReserve(u) == ~Called(u) /\ ReserveFindExisting(u, 1)

ScenarioCancel(u, r) ==
    /\ Answered = 2
    /\ txs = EmptyBag
    /\ \E k \in 1 .. 2 :
          Nth(k).result = "ok" /\ Nth(k).user = u /\ Nth(k).res = r
    /\ CancelLockRes(u, r)

ScenarioRetry(u) ==
    /\ Answered = 3
    /\ txs = EmptyBag
    /\ Nth(3).op = "cancel"
    /\ \E k \in 1 .. 2 : Nth(k).result # "ok" /\ Nth(k).user = u
    /\ ReserveFindExisting(u, 1)

NextScenario ==
    \/ \E u \in Users : ScenarioReserve(u)
    \/ \E u \in Users, r \in HoldIds : ScenarioCancel(u, r)
    \/ \E u \in Users : ScenarioRetry(u)
    \/ \E x \in Tx : ReserveLockDrop(x)
    \/ \E x \in Tx : ReserveCommit(x)
    \/ \E x \in Tx : CancelLockDrop(x)
    \/ \E x \in Tx : CancelCommit(x)
    \/ Tick

SpecScenario == InitScenario /\ [][NextScenario]_vars

\* C13 (scenario A): of two concurrent reserves of the last unit by different
\* holders exactly one succeeds and the other is answered 'Out of stock';
\* once the winner's cancel is answered it has succeeded and the stock is 1
\* again; the loser's retry then succeeds.
ScenarioA ==
    /\ Answered >= 2 =>
          /\ {Nth(1).result, Nth(2).result} = {"ok", "out_of_stock"}
          /\ Nth(1).user # Nth(2).user
    /\ Answered = 2 => drops[1].stock = 0
    /\ Answered >= 3 => Nth(3).op = "cancel" /\ Nth(3).result = "ok"
    /\ Answered = 3 => drops[1].stock = 1
    /\ Answered = 4 =>
          /\ Nth(4).op = "reserve" /\ Nth(4).result = "ok"
          /\ \E k \in 1 .. 2 :
                Nth(k).result = "out_of_stock" /\ Nth(k).user = Nth(4).user
          /\ drops[1].stock = 0
          /\ reservations[Nth(4).res].status = "active"
          /\ reservations[Nth(4).res].user_id = Nth(4).user

\* C13 witness: the whole scenario has run, the loser holds the unit.
ScenarioAWitness ==
    /\ Answered = 4
    /\ Nth(4).result = "ok"
    /\ Cardinality(ActiveHolds(1)) = 1
    /\ Cardinality(ExpiredHolds(1)) = 1

\* ------------------------------------------------------------ races on one hold

\* Hold 1 of user 1 on drop 1 is active and expires at ReservationDuration;
\* the drop has two units, and the other one is either in stock or sold to
\* user 2 through hold 2.  The last two answers are kept.
InitRace ==
    /\ \E sold \in BOOLEAN :
          /\ drops = (1 :> [stock |-> IF sold THEN 0 ELSE 1, initial_stock |-> 2,
                            price |-> 10, drop_start_time |-> NoTime])
          /\ reservations =
                (1 :> [user_id |-> 1, drop_id |-> 1, status |-> "active",
                       expires_at |-> ReservationDuration])
                @@ (IF sold
                    THEN (2 :> [user_id |-> 2, drop_id |-> 1, status |-> "completed",
                                expires_at |-> ReservationDuration])
                    ELSE EmptyFn)
          /\ purchases = IF sold
                         THEN (1 :> [user_id |-> 2, drop_id |-> 1, price |-> 10])
                         ELSE EmptyFn
    /\ txs = EmptyBag
    /\ now = 0
    /\ pool = MaxTx
    /\ answers = <<NoResponse, NoResponse>>

NextRace ==
    \/ \E u \in Users, r \in HoldIds : CancelLockRes(u, r)
    \/ \E x \in Tx : CancelLockDrop(x)
    \/ \E x \in Tx : CancelCommit(x)
    \/ \E u \in Users, r \in HoldIds : CompleteLockRes(u, r)
    \/ \E x \in Tx : CompleteLockDrop(x)
    \/ \E x \in Tx : CompleteCommit(x)
    \/ SweepSelect
    \/ \E x \in Tx : SweepLockDrop(x)
    \/ \E x \in Tx : SweepCommit(x)
    \/ Tick

SpecRace == InitRace /\ [][NextRace]_vars

\* The stock of drop 1 while hold 1 keeps its unit, and the sales made before
\* hold 1 was taken.
RaceStock == drops[1].initial_stock - 1 - Cardinality(DOMAIN reservations \ {1})

RaceSales == Cardinality(DOMAIN reservations \ {1})

\* C5 (exactly-once credit): whatever the order in which a cancel and a
\* sweeper tick reach hold 1, its unit is back in stock exactly once when the
\* hold is expired, and not at all before.
CreditedExactlyOnce ==
    drops[1].stock =
        RaceStock + (IF reservations[1].status = "expired" THEN 1 ELSE 0)

\* C5 witness: the deadline of hold 1 has passed, a cancel holds its row lock
\* with the credit written, and a sweeper tick that selects it has to wait.
CreditedExactlyOnceWitness ==
    /\ reservations[1].expires_at < now
    /\ \E x \in Tx : x.op = "cancel" /\ x.pc = "commit" /\ 1 \in x.lockR
    /\ 1 \in expiredReservations
    /\ CanOpen

\* C6 (one transition wins): hold 1 ends completed with one sale and no
\* credit, or expired with one credit and no sale; it is never both.
OneTransitionWins ==
    LET status == reservations[1].status
        sales == Cardinality(DOMAIN purchases) - RaceSales
        credit == drops[1].stock - RaceStock
    IN  /\ status = "active" => sales = 0 /\ credit = 0
        /\ status = "completed" => sales = 1 /\ credit = 0
        /\ status = "expired" => sales = 0 /\ credit = 1

\* C6 witness: a completePurchase holds the row lock of hold 1 and has its
\* sale ready, the deadline passes, and a sweeper tick or a cancel of the
\* hold has to wait for that lock.
OneTransitionWinsWitness ==
    /\ reservations[1].expires_at < now
    /\ \E x \in Tx : x.op = "complete" /\ x.pc = "commit" /\ 1 \in x.lockR
    /\ 1 \in expiredReservations
    /\ cancelWhere(1, 1)
    /\ CanOpen

\* C12 (lazy expiry): a completePurchase that reaches its expiry check on an
\* active reservation whose deadline has passed is answered 'Reservation has
\* expired', whether or not a sweeper tick has run; the reservation stays
\* active, no purchase is created and no stock changes.
LazyExpiry ==
    [][\A x \in Tx :
        ( /\ x.op = "complete"
          /\ x.pc = "lockDrop"
          /\ Steps(x)
          /\ now > reservations[x.res].expires_at )
        => /\ last' = [op |-> "complete", user |-> x.user, drop |-> x.drop,
                       res |-> x.res, result |-> "reservation_expired"]
           /\ reservations[x.res].status = "active"
           /\ UNCHANGED <<drops, reservations, purchases>>]_vars

\* C12 witness: the owner of hold 1 has just been refused after the deadline,
\* the hold is still active and no sweeper tick has expired it.
LazyExpiryWitness ==
    /\ last.op = "complete"
    /\ last.result = "reservation_expired"
    /\ last.res = 1
    /\ reservations[1].status = "active"
    /\ reservations[1].expires_at < now
    /\ txs = EmptyBag

\* ------------------------------------------------------------ failing reserves

\* One drop, started or starting at time 1, with its whole stock; reserve
\* calls name it or an unknown drop, any awaited statement may throw, and the
\* last answer is kept.
InitFail ==
    /\ \E n \in Stocks, t \in {NoTime, 1} :
          drops = (1 :> [stock |-> n, initial_stock |-> n, price |-> 10,
                         drop_start_time |-> t])
    /\ reservations = EmptyFn
    /\ purchases = EmptyFn
    /\ txs = EmptyBag
    /\ now = 0
    /\ pool = MaxTx
    /\ answers = <<NoResponse>>

NextFail ==
    \/ \E u \in Users, d \in AnyDropIds : ReserveFindExisting(u, d)
    \/ \E x \in Tx : ReserveLockDrop(x)
    \/ \E x \in Tx : ReserveCommit(x)
    \/ \E x \in Tx : ReserveError(x)
    \/ Tick

SpecFail == InitFail /\ [][NextFail]_vars

\* C11 (failing reserve has no effect): a reserve call refused at its first
\* statement, and a reserve transaction that ends with any answer other than
\* success (unknown drop, not started, out of stock, error), leave every
\* drop's stock and the set of reservations as they were.
ReserveFailureNoEffect ==
    [][/\ \A u \in Users, d \in AnyDropIds :
            (existingReservation(u, d) /\ ReserveFindExisting(u, d))
            => /\ last'.result = "already_reserved"
               /\ UNCHANGED <<drops, reservations, txs>>
       /\ \A x \in Tx :
            (x.op = "reserve" /\ Ends(x) /\ last'.result # "ok")
            => /\ last'.result \in {"drop_not_found", "not_started",
                                    "out_of_stock", "error"}
               /\ UNCHANGED <<drops, reservations>>]_vars

\* C11 witness: a reserve has just failed with an error, a unit is on hold
\* for another call, and the stock shows that hold only.
ReserveFailureNoEffectWitness ==
    /\ last.op = "reserve"
    /\ last.result = "error"
    /\ Cardinality(DOMAIN reservations) = 1
    /\ drops[1].stock = drops[1].initial_stock - 1

\* ------------------------------------------------------------ one request at a time

\* Requests are served one after the other, and the last answer is kept.
InitSeq ==
    /\ \E k \in Stocks : InitDb(k, k)
    /\ pool = 1
    /\ answers = <<NoResponse>>

SpecSeq == InitSeq /\ [][Next]_vars

\* ------------------------------------------------------------ price edits

\* Any interleaving of the operations on a drop put on sale with its whole
\* stock, while the catalog price is edited.
InitPrice ==
    /\ \E k \in Stocks : InitDb(k, k)
    /\ pool = MaxTx
    /\ answers = <<>>

NextPrice ==
    \/ Next
    \/ \E d \in DropIds, p \in Prices : UpdateDropPrice(d, p)

SpecPrice == InitPrice /\ [][NextPrice]_vars

IsTerminal(r) ==
    r \in DOMAIN reservations /\ reservations[r].status \in {"expired", "completed"}

\* C7 (terminal-state idempotence): a cancel or a completePurchase that names
\* an expired or completed reservation is answered 'Active reservation not
\* found' and changes no stock, no reservation and no purchase.
TerminalIdempotence ==
    [][\A u \in Users, r \in HoldIds :
        (IsTerminal(r) /\ (CancelLockRes(u, r) \/ CompleteLockRes(u, r)))
        => /\ last'.op \in {"cancel", "complete"}
           /\ last'.user = u
           /\ last'.res = r
           /\ last'.result = "active_reservation_not_found"
           /\ UNCHANGED <<drops, reservations, purchases, txs>>]_vars

\* C7 witness: the owner of an expired or completed reservation has just been
\* refused.
TerminalIdempotenceWitness ==
    /\ last.op \in {"cancel", "complete"}
    /\ last.result = "active_reservation_not_found"
    /\ IsTerminal(last.res)
    /\ reservations[last.res].user_id = last.user

\* C8 (monotonic status): a reservation is created active, changes only from
\* active to expired or to completed, and never changes afterwards.
MonotonicStatus ==
    [][\A r \in DOMAIN reservations' :
        IF r \in DOMAIN reservations
        THEN \/ reservations'[r].status = reservations[r].status
             \/ /\ reservations[r].status = "active"
                /\ reservations'[r].status \in {"expired", "completed"}
        ELSE reservations'[r].status = "active"]_vars

\* C8 witness: a completed reservation is past its deadline, another
\* reservation is already expired, and a sweeper tick can start.
MonotonicStatusWitness ==
    /\ \E r \in DOMAIN reservations :
          reservations[r].status = "completed" /\ reservations[r].expires_at < now
    /\ \E r \in DOMAIN reservations : reservations[r].status = "expired"
    /\ CanOpen

\* C9 (round trip): completePurchase by the owner of an active reservation
\* whose deadline has not passed goes through; its commit adds exactly one
\* purchase, of the caller and the reserved drop, whose price is the price
\* the drop has at that moment, and leaves every stock unchanged.
RoundTrip ==
    [][/\ \A u \in Users, r \in HoldIds :
            ( /\ r \in DOMAIN reservations
              /\ reservations[r].user_id = u
              /\ reservations[r].status = "active"
              /\ CompleteLockRes(u, r) )
            => \E y \in BagToSet(txs') :
                  y.op = "complete" /\ y.pc = "lockDrop" /\ y.user = u /\ y.res = r
       /\ \A x \in Tx :
            (x.op = "complete" /\ Steps(x)) =>
                /\ x.pc = "lockDrop" /\ now <= reservations[x.res].expires_at
                       => \E y \in BagToSet(txs') : y.op = "complete" /\ y.pc = "commit"
                /\ x.pc = "commit"
                       => /\ DOMAIN purchases' = DOMAIN purchases
                                                \cup {Cardinality(DOMAIN purchases) + 1}
                          /\ \A p \in DOMAIN purchases : purchases'[p] = purchases[p]
                          /\ purchases'[Cardinality(DOMAIN purchases) + 1] =
                                [user_id |-> x.user,
                                 drop_id |-> reservations[x.res].drop_id,
                                 price |-> drops'[reservations[x.res].drop_id].price]
                          /\ reservations'[x.res].status = "completed"
                          /\ drops' = drops]_vars

\* C9 witness: a purchase has just been completed at a price the drop did not
\* have when it was put on sale.
RoundTripWitness ==
    \E p \in DOMAIN purchases :
        /\ purchases[p].price = 20
        /\ purchases[p].price = drops[purchases[p].drop_id].price
        /\ \E r \in DOMAIN reservations :
              /\ reservations[r].status = "completed"
              /\ reservations[r].user_id = purchases[p].user_id
              /\ now <= reservations[r].expires_at

\* C10 (one sale per hold): in every state there are as many purchases as
\* completed reservations.
SalePerCompletedHold ==
    \A d \in DOMAIN drops :
        Cardinality(Sales(d)) = Cardinality(CompletedHolds(d))

\* C10 witness: a reservation is completed and sold once, its owner can call
\* completePurchase for it again, and the sale of another reservation is
\* about to be committed.
SalePerCompletedHoldWitness ==
    \E r \in DOMAIN reservations :
        /\ reservations[r].status = "completed"
        /\ Cardinality(DOMAIN purchases) = 1
        /\ CanOpen
        /\ \E x \in Tx : x.op = "complete" /\ x.pc = "commit" /\ x.res # r

\* ------------------------------------------------------------ failing ticks

\* An awaited statement of processExpiredReservations throws (a lock wait
\* timeout, a failure of reservation.save, of drop.save or of the commit):
\* the catch block rolls back and logs the error.
SweepError(x) ==
    /\ x.op = "sweep"
    /\ Rollback(x, "error")

NextSweepFail ==
    \/ Next
    \/ \E x \in Tx : SweepError(x)

\* From any stored state with 0 <= stock <= initial_stock, so that the
\* beforeUpdate hook can refuse the credit of a tick.
SpecSweepFail == InitCeiling /\ [][NextSweepFail]_vars

\* C15 (atomic tick): a tick that ends either leaves every stock, every
\* reservation and every purchase as they were, the reservations it had
\* selected still matching the sweeper's where clause, or turns every
\* reservation it had selected to expired and credits every drop with exactly
\* the number of its reservations that it expired.
SweepAtomic ==
    [][\A x \in Tx :
          (x.op = "sweep" /\ Ends(x)) =>
              \/ /\ UNCHANGED <<drops, reservations, purchases>>
                 /\ x.lockR \subseteq expiredReservations'
              \/ /\ purchases' = purchases
                 /\ DOMAIN reservations' = DOMAIN reservations
                 /\ \A r \in DOMAIN reservations :
                       reservations'[r] =
                           IF r \in x.lockR
                           THEN [reservations[r] EXCEPT !.status = "expired"]
                           ELSE reservations[r]
                 /\ \A d \in DOMAIN drops :
                       drops'[d] =
                           [drops[d] EXCEPT !.stock =
                               @ + Cardinality({r \in x.lockR :
                                       reservations[r].drop_id = d})]]_vars

\* C15 witness: a tick has selected a reservation past its deadline and
\* marked it expired, and the hook is about to refuse its credit (the stock
\* is at its ceiling): the tick fails at drop.save.
SweepAtomicWitness ==
    \E x \in Tx :
        /\ x.op = "sweep"
        /\ x.pc = "lockDrop"
        /\ x.lockR = {1}
        /\ ~DropLocked(1)
        /\ ~DropSaveOk(drops[1], drops[1].stock + x.count[1])

\* ------------------------------------------------------------ events

\* C17 (events after commit): no transaction that is still open, and so may
\* yet roll back, has emitted an event.
EventsAfterCommit == \A x \in Tx : x.emitted = {}

\* ------------------------------------------------------------ failing emits

\* io.emit throws in reserveItem: the transaction is committed
\* (transaction.finished), the catch block skips the rollback and hands the
\* error to next().
ReserveEmitFails(x) ==
    /\ x.pc = "commit"
    /\ x.op = "reserve"
    /\ LET id == Cardinality(DOMAIN reservations) + 1 IN
       /\ drops' = CommitStock(x)
       /\ reservations' = reservations @@
              (id :> [user_id |-> x.user, drop_id |-> x.drop,
                      status |-> "active", expires_at |-> x.expires])
       /\ Close(x)
       /\ answers' = RespondWith(x, id, "error")
       /\ UNCHANGED <<purchases, pool, now>>

\* io.emit throws in cancelReservation, after the commit.
CancelEmitFails(x) ==
    /\ x.pc = "commit"
    /\ x.op = "cancel"
    /\ x.drop \in DOMAIN drops
    /\ drops' = CommitStock(x)
    /\ reservations' = CommitStatus(x, "expired")
    /\ Close(x)
    /\ answers' = Respond(x, "error")
    /\ UNCHANGED <<purchases, pool, now>>

\* io.emit throws in completePurchase, after the commit.
CompleteEmitFails(x) ==
    /\ x.pc = "commit"
    /\ x.op = "complete"
    /\ LET id == Cardinality(DOMAIN purchases) + 1 IN
       /\ reservations' = CommitStatus(x, "completed")
       /\ purchases' = purchases @@
              (id :> [user_id |-> x.user, drop_id |-> x.drop, price |-> x.price])
       /\ Close(x)
       /\ answers' = Respond(x, "error")
       /\ UNCHANGED <<drops, pool, now>>

\* io.emit throws in the loop of processExpiredReservations, after drop.save
\* and before the commit: the catch block rolls the tick back.
SweepEmitFails(x) ==
    /\ x.pc = "lockDrop"
    /\ x.op = "sweep"
    /\ Head(x.todo) \in DOMAIN drops
    /\ ~DropLocked(Head(x.todo))
    /\ DropSaveOk(drops[Head(x.todo)],
                  drops[Head(x.todo)].stock + x.count[Head(x.todo)])
    /\ Rollback(x, "error")

EmitFails(x) ==
    \/ ReserveEmitFails(x)
    \/ CancelEmitFails(x)
    \/ CompleteEmitFails(x)
    \/ SweepEmitFails(x)

NextEmit ==
    \/ Next
    \/ \E x \in Tx : ReserveEmitFails(x)
    \/ \E x \in Tx : CancelEmitFails(x)
    \/ \E x \in Tx : CompleteEmitFails(x)
    \/ \E x \in Tx : SweepEmitFails(x)

SpecEmit == Init /\ [][NextEmit]_vars

\* C18 (emit failures): when io.emit throws, the reservation the handler
\* created or the status it wrote is committed all the same, and so is the
\* stock that reserve, cancel and the sweeper wrote.
EmitFailureKeepsMutation ==
    [][\A x \in Tx :
          EmitFails(x) =>
              /\ reservations' # reservations
              /\ x.op \in {"reserve", "cancel", "sweep"} => drops' # drops]_vars

\* C19 (completePurchase leaves the stock alone): no step of completePurchase,
\* whether it answers 201, 404 or 400 or fails after its commit, changes the
\* stock of a drop.
CompleteKeepsStock ==
    [][( \/ \E u \in Users, r \in HoldIds : CompleteLockRes(u, r)
         \/ \E x \in Tx : x.op = "complete" /\ Steps(x) )
       => \A d \in DOMAIN drops :
             d \in DOMAIN drops' /\ drops'[d].stock = drops[d].stock]_vars

\* C19 witness: the only unit of a drop was reserved and bought, and the
\* stock is what the reservation left.
CompleteKeepsStockWitness ==
    /\ drops[1].initial_stock = 1
    /\ drops[1].stock = 0
    /\ Cardinality(DOMAIN purchases) = 1
    /\ CompletedHolds(1) = {1}
    /\ txs = EmptyBag

\* ------------------------------------------------------------ deleteDrop

\* deleteDrop: Drop.findByPk, the 404 (nothing changes), and drop.destroy();
\* the DELETE waits for the lock of the drop row and of its child rows, and
\* the foreign keys of reservations and purchases (onDelete: 'CASCADE') remove
\* the rows that reference the drop.
DeleteDrop(d) ==
    /\ d \in DOMAIN drops
    /\ ~DropLocked(d)
    /\ \A r \in DOMAIN reservations :
          reservations[r].drop_id = d => ~ResLocked(r)
    /\ drops' = [e \in DOMAIN drops \ {d} |-> drops[e]]
    /\ reservations' =
          [r \in {q \in DOMAIN reservations : reservations[q].drop_id # d}
              |-> reservations[r]]
    /\ purchases' =
          [p \in {q \in DOMAIN purchases : purchases[q].drop_id # d}
              |-> purchases[p]]
    /\ UNCHANGED <<txs, pool, now, answers>>

NextCatalog ==
    \/ Next
    \/ \E d \in DropIds : DeleteDrop(d)

SpecCatalog == Init /\ [][NextCatalog]_vars

\* C20 (holds are kept): no step removes a reservation row.
HoldsNeverRemoved ==
    [][DOMAIN reservations \subseteq DOMAIN reservations']_vars

\* ------------------------------------------------------------ updateDrop stock

\* req.body.stock as validateUpdateDrop lets it through: isInt({ min: 0 }).
AnyStocks == 0 .. 3

\* updateDrop with a request body that carries only stock: Drop.findByPk,
\* drop.stock = updates.stock, drop.save (validation, the beforeUpdate hook,
\* then an UPDATE of the changed column, which waits for the row lock); an
\* error leaves the row as it was.
UpdateDropStock(d, k) ==
    /\ d \in DOMAIN drops
    /\ ~DropLocked(d)
    /\ drops[d].stock # k
    /\ DropSaveOk(drops[d], k)
    /\ drops' = [drops EXCEPT ![d].stock = k]
    /\ UNCHANGED <<reservations, purchases, txs, pool, now, answers>>

NextStock ==
    \/ Next
    \/ \E d \in DropIds, k \in AnyStocks : UpdateDropStock(d, k)

SpecStock == InitPrice /\ [][NextStock]_vars

\* C21 (writers of stock): the stock of a drop changes only at the commit of
\* a reserve (by -1), of a cancel (by +1) or of a sweeper tick (by the number
\* of the drop's reservations the tick expired).
StockWriters ==
    [][\A d \in DOMAIN drops :
          (d \in DOMAIN drops' /\ drops'[d].stock # drops[d].stock) =>
              \E x \in Tx :
                  /\ Ends(x)
                  /\ \/ x.op = "reserve" /\ drops'[d].stock = drops[d].stock - 1
                     \/ x.op = "cancel" /\ drops'[d].stock = drops[d].stock + 1
                     \/ /\ x.op = "sweep"
                        /\ drops'[d].stock = drops[d].stock +
                               Cardinality({r \in x.lockR :
                                   reservations[r].drop_id = d})]_vars

\* The next statement of transaction x is a drop.save that validation or the
\* beforeUpdate hook refuses.
WriteRejected(x) ==
    /\ x.pc = "lockDrop"
    /\ LET d == IF x.op = "sweep" THEN Head(x.todo) ELSE x.drop IN
       /\ d \in DOMAIN drops
       /\ ~DropLocked(d)
       /\ \/ /\ x.op = "reserve"
             /\ hasStarted(drops[d])
             /\ ~outOfStock(drops[d])
             /\ ~DropSaveOk(drops[d], drops[d].stock - 1)
          \/ /\ x.op = "cancel"
             /\ ~DropSaveOk(drops[d], drops[d].stock + 1)
          \/ /\ x.op = "sweep"
             /\ ~DropSaveOk(drops[d], drops[d].stock + x.count[d])

\* C23 (no rejected stock write): no reserve, cancel or sweeper tick is about
\* to save a stock below 0 or above initial_stock.
NoRejectedWrite == \A x \in Tx : ~WriteRejected(x)

\* ------------------------------------------------------------ the deadline

\* C24 (strict deadline): a completePurchase passes its expiry check, and
\* goes on to its commit, only for a reservation that is active with
\* expires_at > now.
CompleteBeforeDeadline ==
    [][\A x \in Tx :
          (x.op = "complete" /\ x.pc = "lockDrop" /\ Steps(x) /\ ~Ends(x)) =>
              /\ reservations[x.res].status = "active"
              /\ reservations[x.res].expires_at > now]_vars

\* ------------------------------------------------------------ reserve checks

\* One drop of two units, started or starting at time 1, with one unit or
\* none in stock, and possibly a reservation that user 1 holds: the stored
\* states in which several checks of reserveItem fail at once.
InitPriority ==
    /\ \E k \in {0, 1}, t \in {NoTime, 1} :
          drops = (1 :> [stock |-> k, initial_stock |-> 2, price |-> 10,
                         drop_start_time |-> t])
    /\ \/ reservations = EmptyFn
       \/ reservations = (1 :> [user_id |-> 1, drop_id |-> 1, status |-> "active",
                                expires_at |-> ReservationDuration])
    /\ purchases = EmptyFn
    /\ txs = EmptyBag
    /\ now = 0
    /\ pool = MaxTx
    /\ answers = <<NoResponse>>

SpecPriority == InitPriority /\ [][NextFail]_vars

\* C25 (priority of the reserve errors): a reserve by a user who has a live
\* reservation of the drop is answered 'already reserved' whatever the state
\* of the drop, and a reserve that reaches a drop which has not started is
\* answered 'not started' whatever its stock.
ReservePriority ==
    [][/\ \A u \in Users, d \in AnyDropIds :
            (existingReservation(u, d) /\ ReserveFindExisting(u, d))
            => /\ last'.result = "already_reserved"
               /\ last'.user = u
       /\ \A x \in Tx :
            ( /\ x.drop \in DOMAIN drops
              /\ ~hasStarted(drops[x.drop])
              /\ ReserveLockDrop(x) )
            => last'.result = "not_started"]_vars

\* C25 witness: the drop has not started and has no stock, and the reserve
\* of a user who holds a live reservation of it was answered 'already
\* reserved'.
ReservePriorityWitness ==
    /\ last.op = "reserve"
    /\ last.result = "already_reserved"
    /\ existingReservation(last.user, 1)
    /\ ~hasStarted(drops[1])
    /\ outOfStock(drops[1])

\* C26 (start gate): the stock of a drop goes down only when the drop has no
\* drop_start_time or its drop_start_time is not after now, and a reserve
\* that reaches a drop without drop_start_time is never answered 'not
\* started'.
StartGate ==
    [][/\ \A d \in DOMAIN drops :
            drops'[d].stock < drops[d].stock =>
                \/ drops[d].drop_start_time = NoTime
                \/ drops[d].drop_start_time <= now
       /\ \A x \in Tx :
            ( /\ x.drop \in DOMAIN drops
              /\ drops[x.drop].drop_start_time = NoTime
              /\ ReserveLockDrop(x) )
            => last'.result # "not_started"]_vars

\* C26 witness: at time 1 a reserve has taken a unit of a drop that starts
\* at time 1.
StartGateWitness ==
    /\ drops[1].drop_start_time = 1
    /\ now = 1
    /\ drops[1].stock = drops[1].initial_stock - 1
    /\ Cardinality(DOMAIN reservations) = 1
    /\ last.op = "reserve"
    /\ last.result = "ok"

\* C27 (effect of a reserve): the statement that creates the reservation
\* gives it the deadline now + ReservationDuration, after now, and changes no
\* stored row; the commit of a reserve answered with success takes exactly
\* one unit off the stock of its drop and adds exactly one reservation, of
\* the caller and the drop, active, with that deadline, in one step.
ReserveEffect ==
    [][\A x \in Tx :
          /\ ( /\ x.op = "reserve" /\ x.pc = "lockDrop"
               /\ Steps(x) /\ ~Ends(x) )
             => /\ UNCHANGED <<drops, reservations>>
                /\ \E y \in BagToSet(txs') :
                      /\ y.expires = now + ReservationDuration
                      /\ y.expires > now
                      /\ y.pc = "commit"
                      /\ CopiesIn(y, txs') > CopiesIn(y, txs)
          /\ ( /\ x.op = "reserve" /\ Ends(x)
               /\ last'.result = "ok" )
             => /\ drops' = [drops EXCEPT ![x.drop].stock = @ - 1]
                /\ \E id \in HoldIds \ DOMAIN reservations :
                      reservations' = reservations @@
                          (id :> [user_id |-> x.user, drop_id |-> x.drop,
                                  status |-> "active",
                                  expires_at |-> x.expires])]_vars

\* C27 witness: a reserve has just been answered with success; its
\* reservation is active, its deadline is ReservationDuration ahead, and one
\* unit is gone from the stock.
ReserveEffectWitness ==
    /\ last.op = "reserve"
    /\ last.result = "ok"
    /\ last.res \in DOMAIN reservations
    /\ reservations[last.res].status = "active"
    /\ reservations[last.res].user_id = last.user
    /\ reservations[last.res].expires_at = now + ReservationDuration
    /\ drops[1].stock = drops[1].initial_stock - 1

\* ------------------------------------------------------------ cancel and ownership

\* C28 (effect of a cancel): a cancel by the owner of an active reservation
\* is let in whether or not the deadline has passed, and a cancel that ends
\* is answered with success, having turned its reservation to expired and
\* added exactly one unit to the stock of its drop in the same step.
CancelEffect ==
    [][/\ \A u \in Users, r \in HoldIds :
            ( /\ r \in DOMAIN reservations
              /\ reservations[r].user_id = u
              /\ reservations[r].status = "active"
              /\ CancelLockRes(u, r) )
            => \E y \in BagToSet(txs') :
                  /\ y.op = "cancel" /\ y.user = u /\ y.res = r
                  /\ y.lockR = {r}
                  /\ CopiesIn(y, txs') > CopiesIn(y, txs)
       /\ \A x \in Tx :
            (x.op = "cancel" /\ Ends(x))
            => /\ last'.result = "ok"
               /\ reservations' = [reservations EXCEPT ![x.res].status = "expired"]
               /\ drops' = [drops EXCEPT ![x.drop].stock = @ + 1]
               /\ purchases' = purchases]_vars

\* C28 witness: the owner's cancel of hold 1 has just succeeded after the
\* deadline, no sweeper tick having come first; the hold is expired and its
\* unit is back.
CancelEffectWitness ==
    /\ last.op = "cancel"
    /\ last.result = "ok"
    /\ last.res = 1
    /\ reservations[1].status = "expired"
    /\ reservations[1].expires_at < now
    /\ drops[1].stock = RaceStock + 1

\* C29 (ownership): a cancel or a completePurchase by a user who does not
\* own the reservation it names is answered 'Active reservation not found'
\* and changes no reservation, no stock, no purchase, and takes no lock.
OwnerOnly ==
    [][\A u \in Users, r \in HoldIds :
          ( /\ r \in DOMAIN reservations
            /\ reservations[r].user_id # u
            /\ (CancelLockRes(u, r) \/ CompleteLockRes(u, r)) )
          => /\ last'.op \in {"cancel", "complete"}
             /\ last'.user = u
             /\ last'.res = r
             /\ last'.result = "active_reservation_not_found"
             /\ UNCHANGED <<drops, reservations, purchases, txs>>]_vars

\* C29 witness: user 2 has just been refused on hold 1, which user 1 owns
\* and which is still active within its deadline.
OwnerOnlyWitness ==
    /\ last.user = 2
    /\ last.res = 1
    /\ last.result = "active_reservation_not_found"
    /\ reservations[1].user_id = 1
    /\ reservations[1].status = "active"
    /\ reservations[1].expires_at > now
    /\ drops[1].stock = RaceStock

\* ------------------------------------------------------------ cron

\* cron.schedule(interval, async () => { ... }): the callback is called once
\* per interval, whether or not the promise of the previous call has
\* settled; a tick that is still running began at an earlier firing.
TickDue == \A y \in Tx : y.op = "sweep" => y.date < now

\* processExpiredReservations opens its transaction and reads the clock:
\* const now = new Date().
SweepBegin ==
    /\ TickDue
    /\ CanOpen
    /\ Opened([NewTx EXCEPT !.op = "sweep", !.pc = "select", !.date = now])

\* Mutant: the comparison of expires_at with now is the wrong way round.
expiredNotYet(t) ==
    {r \in DOMAIN reservations :
        reservations[r].status = "active" /\ reservations[r].expires_at > t}

\* Mutant: the where clause also takes a deadline equal to now.
expiredAtInclusive(t) ==
    {r \in DOMAIN reservations :
        reservations[r].status = "active" /\ reservations[r].expires_at <= t}

\* The where clause of Reservation.findAll, with the now of the tick.
expiredAt(t) ==
    {r \in DOMAIN reservations :
        reservations[r].status = "active" /\ reservations[r].expires_at < t}

\* Reservation.findAll with lock UPDATE, row by row in the order of the ids:
\* the scan locks the next row that matches the where clause, waiting while
\* another transaction holds it; past the last row, the empty-result commit,
\* or the loop that marks every selected reservation expired and counts per
\* drop.
SweepFindAll(x) ==
    /\ x.pc = "select"
    /\ x.op = "sweep"
    /\ LET rest == expiredAt(x.date) \ x.lockR IN
       IF rest # {}
       THEN LET r == CHOOSE m \in rest : \A k \in rest : m <= k
            IN  /\ ~ResLocked(r)
                /\ Goto(x, [x EXCEPT !.lockR = @ \cup {r}])
       ELSE IF x.lockR = {}
       THEN /\ Close(x)
            /\ UNCHANGED <<drops, reservations, purchases, pool, now, answers>>
       ELSE Goto(x, [x EXCEPT !.pc = "lockDrop",
                              !.count = dropStockUpdates(x.lockR),
                              !.todo = SetToSeq(DOMAIN dropStockUpdates(x.lockR))])

\* The reservation rows that exist or that an open reserveItem may insert.
HoldsUnderway ==
    Cardinality(DOMAIN reservations)
        + BagCardinality([y \in {t \in Tx : t.op = "reserve"} |-> CopiesIn(y, txs)])

\* The requests and the sweeper, the sweeper statement by statement; reserve
\* requests stop coming once MaxHolds rows exist or are underway, so that
\* every request that was let in runs to its end.
NextCron ==
    \/ \E u \in Users, d \in DropIds :
          HoldsUnderway < MaxHolds /\ ReserveFindExisting(u, d)
    \/ \E x \in Tx : ReserveLockDrop(x)
    \/ \E x \in Tx : ReserveCommit(x)
    \/ \E u \in Users, r \in HoldIds : CancelLockRes(u, r)
    \/ \E x \in Tx : CancelLockDrop(x)
    \/ \E x \in Tx : CancelCommit(x)
    \/ \E u \in Users, r \in HoldIds : CompleteLockRes(u, r)
    \/ \E x \in Tx : CompleteLockDrop(x)
    \/ \E x \in Tx : CompleteCommit(x)
    \/ SweepBegin
    \/ \E x \in Tx : SweepFindAll(x)
    \/ \E x \in Tx : SweepLockDrop(x)
    \/ \E x \in Tx : SweepCommit(x)
    \/ Tick

SpecCron == InitPrice /\ [][NextCron]_vars

\* ------------------------------------------------------------ two drops

\* Two drops of two units that have started, one unit of each in stock,
\* nothing reserved.
InitTwo ==
    /\ drops = (1 :> [stock |-> 1, initial_stock |-> 2, price |-> 10,
                      drop_start_time |-> NoTime]
                @@ 2 :> [stock |-> 1, initial_stock |-> 2, price |-> 20,
                         drop_start_time |-> NoTime])
    /\ reservations = EmptyFn
    /\ purchases = EmptyFn
    /\ txs = EmptyBag
    /\ now = 0
    /\ pool = MaxTx
    /\ answers = <<>>

\* The next statement of an open transaction, whichever handler it runs.
TxStep(x) ==
    \/ ReserveLockDrop(x)
    \/ ReserveCommit(x)
    \/ CancelLockDrop(x)
    \/ CancelCommit(x)
    \/ CompleteLockDrop(x)
    \/ CompleteCommit(x)
    \/ SweepFindAll(x)
    \/ SweepLockDrop(x)
    \/ SweepCommit(x)

\* The requests on either drop and the sweeper, statement by statement; one
\* user reserves (the locks taken do not depend on who holds a reservation).
NextLocks ==
    \/ \E d \in AnyDropIds :
          HoldsUnderway < MaxHolds /\ ReserveFindExisting(1, d)
    \/ \E u \in Users, r \in HoldIds : CancelLockRes(u, r)
    \/ \E u \in Users, r \in HoldIds : CompleteLockRes(u, r)
    \/ SweepBegin
    \/ \E x \in Tx : TxStep(x)
    \/ Tick

SpecLocks == InitTwo /\ [][NextLocks]_vars

\* C22 (no deadlock): whenever transactions are open, the next statement of
\* at least one of them can run: the transactions that wait for a row lock
\* never wait for each other in a cycle.
NoDeadlock == txs # EmptyBag => ENABLED (\E x \in Tx : TxStep(x))

\* C22 witness: a tick of the sweeper waits for a reservation row that a
\* cancel or a completePurchase holds, which in turn has its drop row still
\* to lock.
NoDeadlockWitness ==
    \E s \in Tx, x \in Tx :
        /\ s.op = "sweep" /\ s.pc = "select"
        /\ x.op \in {"cancel", "complete"} /\ x.pc = "lockDrop"
        /\ x.lockR \cap expiredAt(s.date) # {}
        /\ ~ENABLED SweepFindAll(s)

OpenTicks ==
    BagCardinality([y \in {t \in Tx : t.op = "sweep"} |-> CopiesIn(y, txs)])

\* C16 (ticks never overlap): at most one tick of the sweeper has its
\* transaction open.
TicksNeverOverlap == OpenTicks <= 1

\* ------------------------------------------------------------ what a tick touches

\* C31 (a tick touches overdue holds only): a step of a sweeper tick changes
\* no reservation but active ones whose deadline lay before the tick's now,
\* which it turns to expired, and a tick that selected nothing ends having
\* changed no reservation, no stock and no purchase and emitted no event.
SweepOnlyOverdue ==
    [][\A x \in Tx :
          (x.op = "sweep" /\ Steps(x)) =>
              /\ x.date <= now
              /\ DOMAIN reservations' = DOMAIN reservations
              /\ \A r \in DOMAIN reservations :
                    reservations'[r] # reservations[r] =>
                        /\ reservations[r].status = "active"
                        /\ reservations[r].expires_at < x.date
                        /\ reservations'[r] =
                               [reservations[r] EXCEPT !.status = "expired"]
              /\ (x.lockR = {} /\ Ends(x)) =>
                    /\ UNCHANGED <<drops, reservations, purchases>>
                    /\ x.emitted = {}]_vars

\* C31 witness: a tick is about to commit having selected one reservation,
\* while another reservation is active with its deadline not before the
\* tick's now.
SweepOnlyOverdueWitness ==
    \E x \in Tx :
        /\ x.op = "sweep"
        /\ x.pc = "commit"
        /\ Cardinality(x.lockR) = 1
        /\ \E r \in DOMAIN reservations \ x.lockR :
              /\ reservations[r].status = "active"
              /\ reservations[r].expires_at >= x.date

\* ------------------------------------------------------------ createDrop

\* The primary key the database gives the next drop (AUTO_INCREMENT).
NextDropId ==
    IF DOMAIN drops = {} THEN 1
    ELSE 1 + CHOOSE d \in DOMAIN drops : \A e \in DOMAIN drops : e <= d

\* createDrop: validateCreateDrop (stock and initial_stock are integers >= 0,
\* each on its own), Drop.create with the body's stock and initial_stock (the
\* model's validators run, the beforeUpdate hook does not: the INSERT fires
\* the create hooks only).
CreateDrop(k, n) ==
    /\ NextDropId \in AnyDropIds
    /\ k >= 0 /\ n >= 0
    /\ stockValid(k)
    /\ drops' = [d \in DOMAIN drops \cup {NextDropId} |->
                    IF d \in DOMAIN drops THEN drops[d]
                    ELSE [stock |-> k, initial_stock |-> n, price |-> 10,
                          drop_start_time |-> NoTime]]
    /\ UNCHANGED <<reservations, purchases, txs, pool, now, answers>>

\* Any interleaving of the operations while the catalog creates a drop and
\* sets the stock of the drop on sale.
NextCreate ==
    \/ NextStock
    \/ \E k \in AnyStocks, n \in Stocks : CreateDrop(k, n)

SpecCreate == InitPrice /\ [][NextCreate]_vars

\* A createDrop or an updateDrop is served.
CatalogStep ==
    \/ \E k \in AnyStocks, n \in Stocks : CreateDrop(k, n)
    \/ \E d \in DropIds, k \in AnyStocks : UpdateDropStock(d, k)

\* C32 (the catalog keeps the ceiling): a createDrop or an updateDrop leaves
\* every stored drop with 0 <= stock <= initial_stock.
CatalogKeepsCeiling ==
    [][CatalogStep =>
          \A d \in DOMAIN drops' :
              /\ drops'[d].stock >= 0
              /\ drops'[d].stock <= drops'[d].initial_stock]_vars

\* ------------------------------------------------------------ updateDrop requests

\* updateDrop: the fields of req.body the handler copies to the drop.
allowedFields == {"price", "stock", "drop_start_time"}

\* Request bodies of updateDrop without stock, as validateUpdateDrop lets
\* them through; a field the validator does not name, such as initial_stock,
\* is let through as it is.
UpdateBodies ==
    {("price" :> p) : p \in Prices}
        \cup {("initial_stock" :> n) : n \in Stocks}
        \cup {("price" :> p) @@ ("initial_stock" :> n) : p \in Prices, n \in Stocks}

\* The updateDrop requests between Drop.findByPk and drop.save.
Edits == {y \in Tx : y.op = "update"}

\* updateDrop up to its save: Drop.findByPk (a plain read, outside any
\* transaction) and the 404 (nothing changes); the handler holds the row it
\* read and the request body.
UpdateDropFind(d, updates) ==
    /\ d \in DOMAIN drops
    /\ Opened([NewTx EXCEPT !.op = "update", !.pc = "save", !.drop = d,
                            !.row = drops[d], !.body = updates])

\* allowedFields.forEach: the fields of the instance that are changed, those
\* the body gives a value that differs from the value read.
changedFields(x) ==
    {f \in DOMAIN x.body \cap allowedFields : x.body[f] # x.row[f]}

\* The instance after the forEach.
updatedRow(x) ==
    [f \in DOMAIN x.row |-> IF f \in changedFields(x) THEN x.body[f] ELSE x.row[f]]

\* Mutant: the save writes every column of the instance, changed or not.
UpdateDropSaveAllColumns(x) ==
    /\ x.op = "update" /\ x.pc = "save"
    /\ x.drop \in DOMAIN drops
    /\ ~DropLocked(x.drop)
    /\ Close(x)
    /\ drops' = [drops EXCEPT ![x.drop] = updatedRow(x)]
    /\ UNCHANGED <<reservations, purchases, pool, now, answers>>

\* Mutant: the body is copied to the instance field by field, whatever the
\* field.
UpdateDropSaveAnyField(x) ==
    /\ x.op = "update" /\ x.pc = "save"
    /\ x.drop \in DOMAIN drops
    /\ ~DropLocked(x.drop)
    /\ Close(x)
    /\ drops' = [drops EXCEPT ![x.drop] =
                    [f \in DOMAIN @ |->
                        IF f \in DOMAIN x.body THEN x.body[f] ELSE @[f]]]
    /\ UNCHANGED <<reservations, purchases, pool, now, answers>>

\* drop.save() of updateDrop: validation of the changed fields and the
\* beforeUpdate hook on the instance, then, when a field is changed, an UPDATE
\* of the changed columns only, which waits for the row lock; an error or an
\* instance without a changed field leaves the row as it is.
UpdateDropSave(x) ==
    /\ x.op = "update" /\ x.pc = "save"
    /\ Close(x)
    /\ IF \/ "stock" \in changedFields(x) /\ ~stockValid(updatedRow(x).stock)
          \/ beforeUpdateThrows(updatedRow(x).stock, updatedRow(x).initial_stock)
          \/ changedFields(x) = {}
          \/ x.drop \notin DOMAIN drops
       THEN UNCHANGED drops
       ELSE /\ ~DropLocked(x.drop)
            /\ drops' = [drops EXCEPT ![x.drop] =
                            [f \in DOMAIN @ |->
                                IF f \in changedFields(x) THEN x.body[f] ELSE @[f]]]
    /\ UNCHANGED <<reservations, purchases, pool, now, answers>>

\* The operations, one transaction at a time and one user reserving,
\* interleaved with updateDrop requests, one request in the catalog at a time.
InitUpdate ==
    /\ \E k \in Stocks : InitDb(k, k)
    /\ pool = 1
    /\ answers = <<>>

NextUpdate ==
    \/ \E d \in DropIds : ReserveFindExisting(1, d)
    \/ \E u \in Users, r \in HoldIds : CancelLockRes(u, r)
    \/ \E u \in Users, r \in HoldIds : CompleteLockRes(u, r)
    \/ SweepBegin
    \/ \E x \in Tx : TxStep(x)
    \/ \E d \in DropIds, updates \in UpdateBodies :
          Edits = {} /\ UpdateDropFind(d, updates)
    \/ \E x \in Tx : UpdateDropSave(x)
    \/ Tick

SpecUpdate == InitUpdate /\ [][NextUpdate]_vars

\* C33 (the ceiling is fixed): no step changes the initial_stock of a drop.
InitialStockFixed ==
    [][\A d \in DOMAIN drops :
          d \in DOMAIN drops' =>
              drops'[d].initial_stock = drops[d].initial_stock]_vars

\* C33 witness: an updateDrop whose body carries another initial_stock and a
\* new price is about to save.
InitialStockFixedWitness ==
    \E x \in Edits :
        /\ "initial_stock" \in DOMAIN x.body
        /\ x.body.initial_stock # drops[x.drop].initial_stock
        /\ changedFields(x) # {}
        /\ ENABLED UpdateDropSave(x)

\* ------------------------------------------------------------ the price of a sale

\* C34 (price snapshot): no step, a catalog price edit included, changes the
\* price of a purchase that exists.
SalePriceFixed ==
    [][\A q \in DOMAIN purchases :
          q \in DOMAIN purchases' => purchases'[q].price = purchases[q].price]_vars

\* C34 witness: the catalog price of a drop has been edited after a purchase
\* of it, and the purchase keeps the price it was made at.
SalePriceFixedWitness ==
    \E q \in DOMAIN purchases :
        /\ purchases[q].price = 10
        /\ drops[purchases[q].drop_id].price = 20

\* ------------------------------------------------------------ failing cancels

\* Cancels, purchases and the sweeper from any stored state with
\* 0 <= stock <= initial_stock, with or without an active reservation of
\* user 1; the last answer is kept.
InitCancelFail ==
    /\ \E n \in Stocks : \E k \in 0 .. n :
          drops = (1 :> [stock |-> k, initial_stock |-> n, price |-> 10,
                         drop_start_time |-> NoTime])
    /\ \/ reservations = EmptyFn
       \/ reservations = (1 :> [user_id |-> 1, drop_id |-> 1, status |-> "active",
                                expires_at |-> ReservationDuration])
    /\ purchases = EmptyFn
    /\ txs = EmptyBag
    /\ now = 0
    /\ pool = MaxTx
    /\ answers = <<NoResponse>>

SpecCancelFail == InitCancelFail /\ [][NextRace]_vars

\* The drop.save of cancel x, once it has the lock of the drop row, is of a
\* stock above initial_stock.
CancelOverCeiling(x) ==
    /\ x.op = "cancel"
    /\ x.pc = "lockDrop"
    /\ x.drop \in DOMAIN drops
    /\ drops[x.drop].stock + 1 > drops[x.drop].initial_stock

\* C35 (a cancel over the ceiling aborts): when the credit of a cancel would
\* put the stock above initial_stock, the step ends the transaction with an
\* error and leaves the stock and the reservation, which stays active, as they
\* were.
CancelAborts ==
    [][\A x \in Tx :
          (CancelOverCeiling(x) /\ Steps(x)) =>
              /\ Ends(x)
              /\ last'.op = "cancel" /\ last'.res = x.res /\ last'.result = "error"
              /\ UNCHANGED <<drops, purchases>>
              /\ reservations' = reservations
              /\ reservations[x.res].status = "active"]_vars

\* C35 witness: a cancel has been answered with an error, its reservation is
\* active and the stock is at its ceiling.
CancelAbortsWitness ==
    /\ last.op = "cancel"
    /\ last.result = "error"
    /\ reservations[last.res].status = "active"
    /\ drops[reservations[last.res].drop_id].stock =
          drops[reservations[last.res].drop_id].initial_stock
    /\ txs = EmptyBag

\* ------------------------------------------------------------ conservation

\* The units of drop d that are accounted for: in stock, withheld by an
\* active reservation, or sold through a completed one.
Units(d) ==
    drops[d].stock
        + Cardinality({r \in DOMAIN reservations :
              reservations[r].drop_id = d /\ reservations[r].status = "active"})
        + Cardinality({r \in DOMAIN reservations :
              reservations[r].drop_id = d /\ reservations[r].status = "completed"})

\* C36 (conservation of units): no step of a reserve, a cancel, a
\* completePurchase or a sweeper tick changes, for any drop, the sum of its
\* stock, its active reservations and its completed reservations.
UnitsConserved ==
    [][\A d \in DOMAIN drops : Units(d)' = Units(d)]_vars

\* C36 witness: one unit has been sold and another reserved and given back.
UnitsConservedWitness ==
    /\ \E r \in DOMAIN reservations : reservations[r].status = "completed"
    /\ \E r \in DOMAIN reservations : reservations[r].status = "expired"
    /\ txs = EmptyBag

\* ------------------------------------------------------------ a tick over two drops

\* Two drops of two units, each with an active reservation that expires at
\* ReservationDuration: hold 1 of user 1 on drop 1, hold 2 of user 2 on
\* drop 2.  Drop 2 has its other unit in stock; drop 1 has its other unit in
\* stock, or both units (the catalog has set its stock to the ceiling while
\* hold 1 was active).
InitBlocked ==
    /\ \E k \in Stocks :
          drops = (1 :> [stock |-> k, initial_stock |-> 2, price |-> 10,
                         drop_start_time |-> NoTime]
                   @@ 2 :> [stock |-> 1, initial_stock |-> 2, price |-> 20,
                            drop_start_time |-> NoTime])
    /\ reservations =
          (1 :> [user_id |-> 1, drop_id |-> 1, status |-> "active",
                 expires_at |-> ReservationDuration]
           @@ 2 :> [user_id |-> 2, drop_id |-> 2, status |-> "active",
                    expires_at |-> ReservationDuration])
    /\ purchases = EmptyFn
    /\ txs = EmptyBag
    /\ now = 0
    /\ pool = MaxTx
    /\ answers = <<>>

\* Cancels, purchases and the sweeper, statement by statement.
NextBlocked ==
    \/ \E u \in Users, r \in HoldIds : CancelLockRes(u, r)
    \/ \E x \in Tx : CancelLockDrop(x)
    \/ \E x \in Tx : CancelCommit(x)
    \/ \E u \in Users, r \in HoldIds : CompleteLockRes(u, r)
    \/ \E x \in Tx : CompleteLockDrop(x)
    \/ \E x \in Tx : CompleteCommit(x)
    \/ SweepBegin
    \/ \E x \in Tx : SweepFindAll(x)
    \/ \E x \in Tx : SweepLockDrop(x)
    \/ \E x \in Tx : SweepCommit(x)
    \/ Tick

SpecBlocked == InitBlocked /\ [][NextBlocked]_vars

\* ------------------------------------------------------------ holds of one user

\* Reservations r1 and r2 are two active reservations of one user for one
\* drop.
TwoActive(r1, r2) ==
    /\ r1 # r2
    /\ reservations[r1].user_id = reservations[r2].user_id
    /\ reservations[r1].drop_id = reservations[r2].drop_id
    /\ reservations[r1].status = "active"
    /\ reservations[r2].status = "active"

\* C38 as stated (one active hold whatever its deadline): no user has two
\* active reservations for one drop.
OneActiveStatus ==
    \A r1, r2 \in DOMAIN reservations : ~TwoActive(r1, r2)

\* C38 (one live hold): with requests served one after the other, two active
\* reservations of one user for one drop exist only when the earlier one was
\* at or past its deadline when the later one was created.
ActiveHoldsApart ==
    \A r1, r2 \in DOMAIN reservations :
        (TwoActive(r1, r2) /\ reservations[r1].expires_at <= reservations[r2].expires_at)
            => reservations[r1].expires_at + ReservationDuration
                   <= reservations[r2].expires_at

\* C38 witness: a user holds two units of a drop, through a reservation past
\* its deadline that the sweeper has not expired yet and a later one whose
\* deadline is ahead.
ActiveHoldsApartWitness ==
    \E r1, r2 \in DOMAIN reservations :
        /\ TwoActive(r1, r2)
        /\ reservations[r1].expires_at <= now
        /\ reservations[r2].expires_at > now
        /\ drops[reservations[r1].drop_id].stock = 0
        /\ txs = EmptyBag

\* ------------------------------------------------------------ stale catalog reads

\* C39 (no stale stock): the save of an updateDrop whose body has no stock
\* leaves the stock of every drop as the transactions committed it, whatever
\* was committed since the update read the row.
UpdateKeepsStock ==
    [][\A x \in Edits :
          (Steps(x) /\ "stock" \notin DOMAIN x.body) =>
              \A d \in DOMAIN drops : drops'[d].stock = drops[d].stock]_vars

\* C39 witness: an updateDrop with a new price is about to save, and the
\* stock it read is no longer the stock of the drop.
UpdateKeepsStockWitness ==
    \E x \in Edits :
        /\ "stock" \notin DOMAIN x.body
        /\ "price" \in changedFields(x)
        /\ x.row.stock # drops[x.drop].stock
        /\ ENABLED UpdateDropSave(x)

\* ------------------------------------------------------------ progress

\* The clock advances; cron.schedule keeps firing the sweeper, which gets a
\* connection and whose locking reads are served whenever the rows come free
\* again and again (the pool and InnoDB serve their waiters in turn); a
\* handler that holds a row lock runs on to its commit or rollback.
Fairness ==
    /\ WF_vars(Tick)
    /\ SF_vars(SweepBegin)
    /\ SF_vars(\E x \in Tx : SweepFindAll(x))
    /\ SF_vars(\E x \in Tx : SweepLockDrop(x))
    /\ WF_vars(\E x \in Tx : SweepCommit(x))
    /\ SF_vars(\E x \in Tx : ReserveLockDrop(x))
    /\ WF_vars(\E x \in Tx : ReserveCommit(x))
    /\ \A r \in HoldIds :
          /\ SF_vars(\E x \in Tx : x.res = r /\ CancelLockDrop(x))
          /\ SF_vars(\E x \in Tx : x.res = r /\ CompleteLockDrop(x))
    /\ WF_vars(\E x \in Tx : CancelCommit(x))
    /\ WF_vars(\E x \in Tx : CompleteCommit(x))

SpecLive == SpecCron /\ Fairness

\* The sweeper over two drops, with the scheduling of the cron job and of the
\* database.
SpecBlockedLive == SpecBlocked /\ Fairness

\* The credit a tick would give drop d now is one that drop.save accepts.
CreditFits(d) ==
    DropSaveOk(drops[d],
               drops[d].stock
                   + Cardinality({r \in expiredReservations :
                                      reservations[r].drop_id = d}))

\* C37 (a failing credit does not block the other drops): an active
\* reservation past its deadline, on a drop that accepts the credit, is
\* eventually no longer active, whether or not the credit of another drop is
\* rejected.
OtherDropsSwept ==
    \A r \in HoldIds :
        ( /\ r \in DOMAIN reservations
          /\ reservations[r].status = "active"
          /\ reservations[r].expires_at < now
          /\ CreditFits(reservations[r].drop_id)
          /\ ~\E x \in Tx : x.op = "complete" /\ x.pc = "commit" /\ x.res = r )
        ~> ( /\ r \in DOMAIN reservations
             /\ reservations[r].status # "active" )

====
